---- MODULE Spec2Model ----
(***************************************************************************)
(* CronoSpark (src/app.py): a Flask event-reminder board.  Users register  *)
(* with a username and a 4-digit PIN, log in, and add, list and delete     *)
(* their own events; every listing first purges the events whose date has  *)
(* passed.  The model keeps the two tables (user, event), the session      *)
(* binding of each browser, the clock, and the position of each browser's  *)
(* request in flight.  A handler that issues more than one database        *)
(* statement is split at the statements, so that requests of different     *)
(* browsers interleave as they do under a threaded server.                 *)
(*                                                                         *)
(* Text is a sequence of one-character strings, so that strip(), isdigit() *)
(* and len() are computed.  A date string is a record of its layout and    *)
(* its year, month and day fields, so that strptime/fromisoformat are      *)
(* computed from the calendar.  The columns description and link of Event  *)
(* are write-only in app.py and are left out.                              *)
(***************************************************************************)
EXTENDS Integers, Sequences, FiniteSets

(***************************************************************************)
(* Bounds of the model.                                                    *)
(***************************************************************************)
\* Event rows inserted in one behaviour of Spec.
MaxEvents == 2
\* Event rows inserted in one behaviour of SpecBoard.
MaxBoardEvents == 2
\* Event rows inserted in one behaviour of SpecDates.
MaxDatedEvents == 3
\* The events added in SpecAdd.
MaxAdded == 2
\* Event rows of the stores SpecList draws.
MaxListed == 4
\* Event rows of the stores SpecUrgent draws.
MaxUrgentListed == 7

(***************************************************************************)
(* Text                                                                    *)
(***************************************************************************)
\* str.isspace(): the characters str.strip() removes.
SpaceChars == {" "}

\* The ASCII decimal digits.
DecimalChars == {"0", "1", "2", "3", "4", "5", "6", "7", "8", "9"}

\* str.isdigit() holds of the decimal digits and of the characters with the
\* Unicode property Digit, such as SUPERSCRIPT TWO (written "^2" here).
DigitChars == DecimalChars \cup {"^2"}

RECURSIVE LStrip(_)
LStrip(s) ==
    IF s # << >> /\ Head(s) \in SpaceChars THEN LStrip(Tail(s)) ELSE s

RECURSIVE RStrip(_)
RStrip(s) ==
    IF s # << >> /\ s[Len(s)] \in SpaceChars
    THEN RStrip(SubSeq(s, 1, Len(s) - 1))
    ELSE s

\* str.strip()
Strip(s) == RStrip(LStrip(s))

\* str.isdigit(): non-empty and every character is a digit.
IsDigit(s) == s # << >> /\ \A i \in 1..Len(s) : s[i] \in DigitChars

(***************************************************************************)
(* Password hashing (werkzeug.security, as app.py uses it)                 *)
(***************************************************************************)
\* generate_password_hash(pin, method="pbkdf2:sha256", salt_length=8): the
\* salt and the digest of (salt, pin); the digest is modelled as the pair.
generate_password_hash(pin, salt) ==
    [method |-> "pbkdf2:sha256", salt |-> salt, digest |-> <<salt, pin>>]

\* A bug: the hash comparison accepts every PIN.
verify_pin_any(user, pin_plain) == TRUE

\* User.verify_pin: check_password_hash recomputes the digest with the
\* stored salt and compares.
verify_pin(user, pin_plain) ==
    user.pin_hash.digest = <<user.pin_hash.salt, pin_plain>>

(***************************************************************************)
(* Dates                                                                   *)
(***************************************************************************)
\* A date string: layout "absent" (no form field, None), "empty" (""),
\* "ymd" (YYYY-MM-DD), "datetime" (YYYY-MM-DDTHH:MM:SS) or "junk".
DateStr(layout, y, m, d) == [layout |-> layout, y |-> y, m |-> m, d |-> d]

\* SQL NULL / Python None in the date column.
NoDate == DateStr("absent", 0, 0, 0)

\* Python's None as the result of parse_iso_date.
None == 0

IsLeap(y) == (y % 4 = 0 /\ y % 100 # 0) \/ y % 400 = 0

DaysInMonth(y, m) ==
    CASE m \in {1, 3, 5, 7, 8, 10, 12} -> 31
      [] m \in {4, 6, 9, 11} -> 30
      [] m = 2 -> IF IsLeap(y) THEN 29 ELSE 28
      [] OTHER -> 0

\* datetime.date accepts the fields.
ValidYMD(y, m, d) ==
    y \in 1..9999 /\ m \in 1..12 /\ d \in 1..DaysInMonth(y, m)

RECURSIVE DaysBeforeMonth(_, _)
DaysBeforeMonth(y, m) ==
    IF m <= 1 THEN 0 ELSE DaysBeforeMonth(y, m - 1) + DaysInMonth(y, m - 1)

\* Days before 1 January of year y (datetime._days_before_year).
DaysBeforeYear(y) ==
    LET y1 == y - 1 IN y1 * 365 + (y1 \div 4) - (y1 \div 100) + (y1 \div 400)

\* date.toordinal(): 1 January of year 1 is day 1.
Ordinal(y, m, d) == DaysBeforeYear(y) + DaysBeforeMonth(y, m) + d

\* parse_iso_date: None for a falsy string; strptime(s, "%Y-%m-%d"), then
\* datetime.fromisoformat(s), then None.  The result is the date's ordinal.
parse_iso_date(s) ==
    IF s.layout \in {"absent", "empty"} THEN None
    ELSE IF s.layout = "ymd" /\ ValidYMD(s.y, s.m, s.d)
         THEN Ordinal(s.y, s.m, s.d)
    ELSE IF s.layout \in {"ymd", "datetime"} /\ ValidYMD(s.y, s.m, s.d)
         THEN Ordinal(s.y, s.m, s.d)
    ELSE None

(***************************************************************************)
(* State                                                                   *)
(***************************************************************************)
VARIABLES
    users,        \* the user table: rows [id, username, pin_hash]
    events,       \* the event table: rows [id, user_id, title, date, time,
                  \*   urgent, created_at]
    nextUserId,   \* the next primary key of user
    nextEventId,  \* the rows inserted into event so far, plus one: the
                  \*   next value of a key sequence
    dialect,      \* how the database of SQLALCHEMY_DATABASE_URI assigns keys
    session,      \* per browser: session["user_id"], NoUser when not set
    today,        \* date.today(), as an ordinal
    req,          \* per browser: the request in flight and its locals
    last,         \* the request served by the last step and its response
    registered    \* history: for each registration that created a user,
                  \*   the form fields as submitted and the user's id

vars ==
    <<users, events, nextUserId, nextEventId, dialect, session, today, req,
      last, registered>>

\* "user_id" not in session.
NoUser == 0

\* No request in flight.  The locals of a request: of register the form
\* fields as submitted and stripped, of delete_event the event_id, and of
\* clean_past_events today, the rows Event.query.all() returned and the
\* keys of to_delete.
Idle ==
    [pc |-> "idle", form |-> << >>, username |-> << >>, pin |-> << >>,
     event_id |-> 0, today |-> 0, scanned |-> {}, to_delete |-> {}]

\* A response without a view model (a redirect with its flash message), to
\* the browser's request for the route op with the form fields.
Redirect(c, op, form, kind) ==
    [client |-> c, op |-> op, form |-> form, kind |-> kind,
     events |-> << >>, urgent_events |-> << >>]

\* The databases: SQLite, the default, whose INTEGER PRIMARY KEY is the
\* rowid, one more than the largest key in the table; or the server of
\* DATABASE_URL, whose key comes from a sequence and is never used twice.
Dialects == {"rowid", "sequence"}

\* The state after db.create_all() on a fresh database, on the given day,
\* with the given browsers.
InitWith(clients, day) ==
    /\ users = {}
    /\ events = {}
    /\ nextUserId = 1
    /\ nextEventId = 1
    /\ dialect \in Dialects
    /\ session = [c \in clients |-> NoUser]
    /\ today = day
    /\ req = [c \in clients |-> Idle]
    /\ last = Redirect("none", "none", << >>, "none")
    /\ registered = {}

(***************************************************************************)
(* Auth helpers                                                            *)
(***************************************************************************)
\* User.query.filter_by(username=username).first(): the set of matches
\* (at most one row, by the unique constraint).
UsersNamed(username) == {u \in users : u.username = username}

\* login_required: "user_id" in session.
login_required(c) == session[c] # NoUser

\* get_current_user: the rows User.query.get(uid) finds, none when uid is
\* falsy.
get_current_user(c) ==
    IF session[c] = NoUser THEN {} ELSE {u \in users : u.id = session[c]}

(***************************************************************************)
(* POST /register                                                          *)
(***************************************************************************)
\* The PIN test of register: pin.isdigit() and len(pin) == 4.
PinAccepted(pin) == IsDigit(pin) /\ Len(pin) = 4

\* register, up to the duplicate lookup: strip both fields, validate, look
\* the username up.
RegisterCheck(c, raw_username, raw_pin) ==
    LET form == <<raw_username, raw_pin>>
        username == Strip(raw_username)
        pin == Strip(raw_pin)
    IN  /\ req[c].pc = "idle"
        /\ IF username = << >> \/ pin = << >>
           THEN /\ last' = Redirect(c, "register", form, "register_missing")
                /\ req' = req
           ELSE IF ~PinAccepted(pin)
           THEN /\ last' = Redirect(c, "register", form, "register_bad_pin")
                /\ req' = req
           ELSE IF UsersNamed(username) # {}
           THEN /\ last' = Redirect(c, "register", form, "register_duplicate")
                /\ req' = req
           ELSE /\ req' = [req EXCEPT ![c] =
                      [Idle EXCEPT !.pc = "register_commit",
                                   !.form = form,
                                   !.username = username, !.pin = pin]]
                /\ last' = Redirect(c, "register", form, "pending")
        /\ UNCHANGED <<users, events, nextUserId, nextEventId, dialect,
                       session, today, registered>>

\* User.username is unique=True: the INSERT of a second row with the
\* username raises IntegrityError.
UniqueViolated(username) == UsersNamed(username) # {}

\* register, the rest: hash the PIN with a fresh salt, INSERT the row,
\* commit.  A violated
\* unique constraint is not caught: the request ends as a server error.
RegisterCommit(c, salt) ==
    /\ req[c].pc = "register_commit"
    /\ IF UniqueViolated(req[c].username)
       THEN /\ last' = Redirect(c, "register", req[c].form, "server_error")
            /\ UNCHANGED <<users, nextUserId, registered>>
       ELSE /\ users' = users \cup
                 {[id |-> nextUserId, username |-> req[c].username,
                   pin_hash |-> generate_password_hash(req[c].pin, salt)]}
            /\ nextUserId' = nextUserId + 1
            /\ registered' = registered \cup
                 {[username |-> req[c].form[1], pin |-> req[c].form[2],
                   id |-> nextUserId]}
            /\ last' = Redirect(c, "register", req[c].form, "register_created")
    /\ req' = [req EXCEPT ![c] = Idle]
    /\ UNCHANGED <<events, nextEventId, dialect, session, today>>

(***************************************************************************)
(* POST /login, GET /logout                                                *)
(***************************************************************************)
\* login: strip both fields, look the user up, verify the PIN, bind the
\* session.
Login(c, raw_username, raw_pin) ==
    LET form == <<raw_username, raw_pin>>
        username == Strip(raw_username)
        pin == Strip(raw_pin)
        found == {u \in UsersNamed(username) : verify_pin(u, pin)}
    IN  /\ req[c].pc = "idle"
        /\ IF found = {}
           THEN /\ last' = Redirect(c, "login", form, "login_invalid")
                /\ session' = session
           ELSE \E u \in found :
                /\ session' = [session EXCEPT ![c] = u.id]
                /\ last' = Redirect(c, "login", form, "login_ok")
        /\ UNCHANGED <<users, events, nextUserId, nextEventId, dialect, today,
                       req, registered>>

\* logout: session.pop("user_id", None).
Logout(c) ==
    /\ req[c].pc = "idle"
    /\ session' = [session EXCEPT ![c] = NoUser]
    /\ last' = Redirect(c, "logout", << >>, "logout")
    /\ UNCHANGED <<users, events, nextUserId, nextEventId, dialect, today,
                   req, registered>>

(***************************************************************************)
(* clean_past_events                                                       *)
(***************************************************************************)
\* A bug: the events dated today are purged too.
IsPast_inclusive(e, day) ==
    parse_iso_date(e.date) # None /\ parse_iso_date(e.date) <= day

\* A bug: the events dated yesterday are kept.
IsPast_late(e, day) ==
    parse_iso_date(e.date) # None /\ parse_iso_date(e.date) < day - 1

\* The test of clean_past_events: d and d < today.
IsPast(e, day) ==
    LET d == parse_iso_date(e.date) IN d # None /\ d < day

\* The scan of clean_past_events: the rows of Event.query.all(), of every
\* user, whose date is before the day (their keys).
PastEventIds(day) == {e.id : e \in {x \in events : IsPast(x, day)}}

\* db.session.delete(e) for each listed row, then commit: DELETE by primary
\* key; a row that is already gone matches nothing.
DeleteRows(ids) == {e \in events : e.id \notin ids}

(***************************************************************************)
(* GET /                                                                   *)
(***************************************************************************)
\* Lexicographic order of two texts given as sequences of numbers; the
\* empty text (and NULL, which SQLite sorts first) precedes the others.
RECURSIVE SeqLess(_, _)
SeqLess(a, b) ==
    IF b = << >> THEN FALSE
    ELSE IF a = << >> THEN TRUE
    ELSE IF Head(a) # Head(b) THEN Head(a) < Head(b)
    ELSE SeqLess(Tail(a), Tail(b))

\* The date column as text, zero padded: NULL is the empty text, and
\* "YYYY-MM-DD" precedes "YYYY-MM-DDTHH:MM:SS" of the same day.
DateText(s) ==
    IF s.layout = "absent" THEN << >>
    ELSE <<s.y, s.m, s.d, IF s.layout = "ymd" THEN 0 ELSE 1>>

\* ORDER BY Event.date, Event.time, Event.created_at DESC.
OrderedBefore(a, b) ==
    IF DateText(a.date) # DateText(b.date)
    THEN SeqLess(DateText(a.date), DateText(b.date))
    ELSE IF a.time # b.time THEN SeqLess(a.time, b.time)
    ELSE a.created_at > b.created_at

\* The rows of a set in the order of the ORDER BY clause.
SortRows(rows) ==
    [i \in 1..Cardinality(rows) |->
        CHOOSE e \in rows :
            Cardinality({x \in rows : OrderedBefore(x, e)}) = i - 1]

\* A bug: the rows of every user are fetched.
FetchFor_all(uid) == SortRows(events)

\* Event.query.filter_by(user_id=user.id).order_by(...).all()
FetchFor(uid) == SortRows({e \in events : e.user_id = uid})

\* An optional number: Python's None or an int.
Nothing == << >>
Some(n) == <<n>>

\* The label of an event dated days_left days from today.
DaysLabel(days_left) ==
    IF days_left < 0 THEN "Vencio"
    ELSE IF days_left = 0 THEN "Hoy"
    ELSE IF days_left = 1 THEN "Manana"
    ELSE "En N dias"

\* Days of the very-near window.
NearDays == 3

\* e.urgent and 0 <= days_left <= 3.
IsVeryNear(urgent, days_left) ==
    urgent /\ 0 <= days_left /\ days_left <= NearDays

\* The loop body of index: the event with _is_very_near, _days_left and
\* _days_label set.
Annotate(e, day) ==
    LET e_date == parse_iso_date(e.date)
        days_left == e_date - day
    IN  [id |-> e.id, user_id |-> e.user_id, date |-> e.date,
         urgent |-> e.urgent, created_at |-> e.created_at,
         is_very_near |-> e_date # None /\ IsVeryNear(e.urgent, days_left),
         days_left |-> IF e_date # None THEN Some(days_left) ELSE Nothing,
         days_label |-> IF e_date # None THEN DaysLabel(days_left)
                        ELSE "None"]

\* seq[:n]
Take(seq, n) == SubSeq(seq, 1, IF Len(seq) < n THEN Len(seq) ELSE n)

\* A bug: the very-near events are prepended, which reverses them.
RECURSIVE Partition_prepend(_)
Partition_prepend(all_events) ==
    IF all_events = << >> THEN << >>
    ELSE LET n == Len(all_events)
             rest == Partition_prepend(SubSeq(all_events, 1, n - 1))
         IN  IF all_events[n].is_very_near THEN <<all_events[n]>> \o rest
             ELSE rest \o <<all_events[n]>>

\* events_ordered = very_near_urgent + other_events, each appended to in the
\* order of all_events.
Partition(all_events) ==
    LET near(v) == v.is_very_near
        far(v) == ~v.is_very_near
    IN  SelectSeq(all_events, near) \o SelectSeq(all_events, far)

\* The length of urgent_events.
MaxUrgent == 5

\* A bug: the list is cut before it is filtered.
UrgentOf_cutfirst(events_ordered) ==
    LET urgent(v) == v.urgent
    IN  SelectSeq(Take(events_ordered, MaxUrgent), urgent)

\* urgent_events = [e for e in events_ordered if e.urgent][:5]
UrgentOf(events_ordered) ==
    LET urgent(v) == v.urgent
    IN  Take(SelectSeq(events_ordered, urgent), MaxUrgent)

\* The view model of index for the rows fetched, on the given day.
ViewModel(c, rows, day) ==
    LET all_events == [i \in 1..Len(rows) |-> Annotate(rows[i], day)]
        events_ordered == Partition(all_events)
    IN  [client |-> c, op |-> "index", form |-> << >>, kind |-> "index",
         events |-> events_ordered,
         urgent_events |-> UrgentOf(events_ordered)]

\* index, up to the scan of clean_past_events.  With nothing to delete the
\* cleanup issues no further statement.
IndexStart(c) ==
    /\ req[c].pc = "idle"
    /\ IF ~login_required(c)
       THEN /\ last' = Redirect(c, "index", << >>, "login_required")
            /\ req' = req
       ELSE /\ req' = [req EXCEPT ![c] =
                  [Idle EXCEPT !.pc = IF PastEventIds(today) = {}
                                      THEN "index_fetch"
                                      ELSE "index_clean",
                               !.today = today,
                               !.scanned = events,
                               !.to_delete = PastEventIds(today)]]
            /\ last' = Redirect(c, "index", << >>, "pending")
    /\ UNCHANGED <<users, events, nextUserId, nextEventId, dialect, session,
                   today, registered>>

\* index, the deletes and the commit of clean_past_events.
IndexClean(c) ==
    /\ req[c].pc = "index_clean"
    /\ events' = DeleteRows(req[c].to_delete)
    /\ req' = [req EXCEPT ![c].pc = "index_fetch"]
    /\ last' = Redirect(c, "index", << >>, "pending")
    /\ UNCHANGED <<users, nextUserId, nextEventId, dialect, session, today,
                   registered>>

\* index, the rest: the current user, the user's rows, today, the loop and
\* the view model.
IndexFetch(c) ==
    /\ req[c].pc = "index_fetch"
    /\ IF get_current_user(c) = {}
       THEN last' = Redirect(c, "index", << >>, "login_required")
       ELSE \E user \in get_current_user(c) :
            last' = ViewModel(c, FetchFor(user.id), today)
    /\ req' = [req EXCEPT ![c] = Idle]
    /\ UNCHANGED <<users, events, nextUserId, nextEventId, dialect, session,
                   today, registered>>

(***************************************************************************)
(* POST /add                                                               *)
(***************************************************************************)
\* request.form.get(name) of a field the form does not hold: None.
AbsentField == "<None>"

\* A bug: the date is not validated.
DateRejected_off(date_str) == FALSE

\* date_str and parse_iso_date(date_str) is None
DateRejected(date_str) ==
    /\ date_str.layout \notin {"absent", "empty"}
    /\ parse_iso_date(date_str) = None

\* True if request.form.get("urgent") == "on" else False
UrgentFlag(flag) == flag = "on"

\* user = get_current_user(); the row's user_id is user.id.
OwnerOf(c) == get_current_user(c)

\* date=date_str or None
StoredDate(date_str) ==
    IF date_str.layout \in {"absent", "empty"} THEN NoDate ELSE date_str

\* The largest of a non-empty set of numbers.
Largest(ids) == CHOOSE n \in ids : \A k \in ids : k <= n

\* The primary key the database gives the inserted row.
NewEventId ==
    IF dialect = "sequence" THEN nextEventId
    ELSE IF events = {} THEN 1
    ELSE Largest({e.id : e \in events}) + 1

\* add_event: validate the title and the date, INSERT the row, commit.
AddEvent(c, title, date_str, time, flag) ==
    LET form == <<title, date_str, time, flag>> IN
    /\ req[c].pc = "idle"
    /\ IF ~login_required(c)
       THEN /\ last' = Redirect(c, "add", form, "login_required")
            /\ UNCHANGED <<events, nextEventId>>
       ELSE IF title \in {AbsentField, ""}
       THEN /\ last' = Redirect(c, "add", form, "add_no_title")
            /\ UNCHANGED <<events, nextEventId>>
       ELSE IF DateRejected(date_str)
       THEN /\ last' = Redirect(c, "add", form, "add_bad_date")
            /\ UNCHANGED <<events, nextEventId>>
       ELSE /\ \E user \in OwnerOf(c) :
               events' = events \cup
                 {[id |-> NewEventId, user_id |-> user.id, title |-> title,
                   date |-> StoredDate(date_str), time |-> time,
                   urgent |-> UrgentFlag(flag), created_at |-> nextEventId]}
            /\ nextEventId' = nextEventId + 1
            /\ last' = Redirect(c, "add", form, "add_ok")
    /\ UNCHANGED <<users, nextUserId, dialect, session, today, req,
                   registered>>

(***************************************************************************)
(* POST /delete/<event_id>                                                 *)
(***************************************************************************)
\* A bug: the owner is not checked.
NotOwner_off(event, user) == FALSE

\* event.user_id != user.id
NotOwner(event, user) == event.user_id # user.id

\* delete_event, up to the ownership check: the current user, the row of
\* Event.query.get_or_404(event_id), the check.
DeleteLookup(c, event_id) ==
    LET found == {e \in events : e.id = event_id} IN
    /\ req[c].pc = "idle"
    /\ IF ~login_required(c)
       THEN /\ last' = Redirect(c, "delete", <<event_id>>, "login_required")
            /\ req' = req
       ELSE IF found = {}
       THEN /\ last' = Redirect(c, "delete", <<event_id>>, "not_found")
            /\ req' = req
       ELSE \E event \in found, user \in get_current_user(c) :
            IF NotOwner(event, user)
            THEN /\ last' = Redirect(c, "delete", <<event_id>>, "forbidden")
                 /\ req' = req
            ELSE /\ req' = [req EXCEPT ![c] =
                       [Idle EXCEPT !.pc = "delete_commit",
                                    !.event_id = event_id]]
                 /\ last' = Redirect(c, "delete", <<event_id>>, "pending")
    /\ UNCHANGED <<users, events, nextUserId, nextEventId, dialect, session,
                   today, registered>>

\* delete_event, the rest: db.session.delete(event), commit, the success
\* flash.  Nothing looks at whether the row was still there.
DeleteCommit(c) ==
    /\ req[c].pc = "delete_commit"
    /\ events' = DeleteRows({req[c].event_id})
    /\ last' = Redirect(c, "delete", <<req[c].event_id>>, "deleted")
    /\ req' = [req EXCEPT ![c] = Idle]
    /\ UNCHANGED <<users, nextUserId, nextEventId, dialect, session, today,
                   registered>>

(***************************************************************************)
(* The clock                                                               *)
(***************************************************************************)
\* The day the model starts on: 2025-06-01.
FirstDay == Ordinal(2025, 6, 1)

\* Midnight passes: date.today() moves on by a day.
Tick(last_day) ==
    /\ today < last_day
    /\ today' = today + 1
    /\ UNCHANGED <<users, events, nextUserId, nextEventId, dialect, session,
                   req, last, registered>>

(***************************************************************************)
(* Inputs                                                                  *)
(***************************************************************************)
Ana == <<"a", "n", "a">>
Bob == <<"b", "o", "b">>
Pin1234 == <<"1", "2", "3", "4">>
Pin5678 == <<"5", "6", "7", "8">>

D_0531 == DateStr("ymd", 2025, 5, 31)
D_0601 == DateStr("ymd", 2025, 6, 1)
D_0602 == DateStr("ymd", 2025, 6, 2)
D_0604 == DateStr("ymd", 2025, 6, 4)
D_0605 == DateStr("ymd", 2025, 6, 5)
NoTime == << >>

(***************************************************************************)
(* Spec: the whole application from a fresh database, one browser that     *)
(* two users share                                                         *)
(***************************************************************************)
Init == InitWith({"c1"}, FirstDay)

Next ==
    \E c \in {"c1"} :
        \/ \E u \in {Ana, Bob} : RegisterCheck(c, u, Pin1234)
        \/ RegisterCommit(c, "s1")
        \/ \E u \in {Ana, Bob}, p \in {Pin1234, Pin5678} : Login(c, u, p)
        \/ Logout(c)
        \/ IndexStart(c)
        \/ IndexClean(c)
        \/ IndexFetch(c)
        \/ /\ nextEventId <= MaxEvents
           /\ \E t \in {"", "Doctor"}, d \in {NoDate, D_0531, D_0601},
                 f \in {AbsentField, "on"} : AddEvent(c, t, d, NoTime, f)
        \/ \E id \in 1..MaxEvents : DeleteLookup(c, id)
        \/ DeleteCommit(c)

Spec == Init /\ [][Next]_vars

(***************************************************************************)
(* SpecBoard: the event board with two browsers whose requests interleave. *)
(* The database holds two users and no event; the first browser is logged  *)
(* in as the first user, the second as either.                             *)
(***************************************************************************)
\* The row register inserts for the username and the PIN.
UserRow(id, username, pin, salt) ==
    [id |-> id, username |-> username,
     pin_hash |-> generate_password_hash(pin, salt)]

BoardInit ==
    /\ users = {UserRow(1, Ana, Pin1234, "s1"), UserRow(2, Bob, Pin5678, "s2")}
    /\ events = {}
    /\ nextUserId = 3
    /\ nextEventId = 1
    /\ dialect \in Dialects
    /\ session \in {[c \in {"c1", "c2"} |-> IF c = "c1" THEN 1 ELSE uid] :
                      uid \in {1, 2}}
    /\ today = FirstDay
    /\ req = [c \in {"c1", "c2"} |-> Idle]
    /\ last = Redirect("none", "none", << >>, "none")
    /\ registered = {[username |-> Ana, pin |-> Pin1234, id |-> 1],
                     [username |-> Bob, pin |-> Pin5678, id |-> 2]}

BoardNext ==
    \E c \in {"c1", "c2"} :
        \/ IndexStart(c)
        \/ IndexClean(c)
        \/ IndexFetch(c)
        \/ /\ nextEventId <= MaxBoardEvents
           /\ \E t \in {"", "Doctor"}, d \in {NoDate, D_0531, D_0601},
                 f \in {AbsentField, "on"} : AddEvent(c, t, d, NoTime, f)
        \/ \E id \in 1..MaxBoardEvents : DeleteLookup(c, id)
        \/ DeleteCommit(c)

SpecBoard == BoardInit /\ [][BoardNext]_vars

(***************************************************************************)
(* SpecAuth: registration and login from a fresh database, two browsers    *)
(* whose requests interleave, with form fields of every kind               *)
(***************************************************************************)
\* The username fields submitted to register: plain, with a leading blank,
\* blank.
RegisterUsernames == {Ana, <<" ">> \o Ana, Bob, <<" ">>}

\* The PIN fields submitted to register: four digits, with a trailing
\* blank, three digits, a letter among the digits, empty, and four
\* SUPERSCRIPT TWO characters.
RegisterPins ==
    {Pin1234, Pin1234 \o <<" ">>, <<"1", "2", "3">>, <<"1", "2", "a", "4">>,
     << >>, <<"^2", "^2", "^2", "^2">>}

\* The fields submitted to login.
LoginUsernames == {Ana, <<" ">> \o Ana, Bob}
LoginPins == {Pin1234, Pin1234 \o <<" ">>, Pin5678}

AuthInit == InitWith({"c1", "c2"}, FirstDay) /\ dialect = "rowid"

AuthNext ==
    \E c \in {"c1", "c2"} :
        \/ \E u \in RegisterUsernames, p \in RegisterPins :
              RegisterCheck(c, u, p)
        \/ RegisterCommit(c, "s1")
        \/ \E u \in LoginUsernames, p \in LoginPins : Login(c, u, p)
        \/ Logout(c)

SpecAuth == AuthInit /\ [][AuthNext]_vars

(***************************************************************************)
(* Properties of delete (SpecBoard)                                        *)
(***************************************************************************)
\* The keys of the rows of the event table.
EventIds == {e.id : e \in events}

\* The step serves a request for the route op: its first step when the
\* browser's request was at pc "idle", a later step otherwise.  (Every step
\* but the clock's writes the request it serves to last.)
Serves(op, pc) ==
    /\ today' = today
    /\ last'.op = op
    /\ req[last'.client].pc = pc

C8_VanishedIsNotFound ==
    [][(/\ Serves("delete", "delete_commit")
        /\ req[last'.client].event_id \notin EventIds) =>
            last'.kind = "not_found"
      ]_vars

(***************************************************************************)
(* Properties of the listing under interleaving (SpecBoard)                *)
(***************************************************************************)
\* The view records of a listing that are overdue (days_left < 0).
Overdue(listing) ==
    {i \in 1..Len(listing) :
        listing[i].days_left # Nothing /\ listing[i].days_left[1] < 0}

SameText(a, b) == a = b
SameStripped(a, b) == Strip(a) = Strip(b)

\* C5 as stated: after a successful register(username, pin), a login with
\* that username and that PIN succeeds and binds the session to the user's
\* id; a login with any other PIN, or with a username never registered,
\* fails as invalid credentials and leaves the session as it was.
C5_LoginIffSameFields ==
    [][Serves("login", "idle") =>
            LET match == {r \in registered :
                             /\ SameText(r.username, last'.form[1])
                             /\ SameText(r.pin, last'.form[2])}
            IN  IF match # {}
                THEN /\ last'.kind = "login_ok"
                     /\ \A r \in match : session'[last'.client] = r.id
                ELSE /\ last'.kind = "login_invalid"
                     /\ session' = session
      ]_vars

\* C5 amended: the same, with the username and the PIN compared after the
\* surrounding whitespace is stripped from the submitted fields.
C5_LoginIffSameStrippedFields ==
    [][Serves("login", "idle") =>
            LET match == {r \in registered :
                             /\ SameStripped(r.username, last'.form[1])
                             /\ SameStripped(r.pin, last'.form[2])}
            IN  IF match # {}
                THEN /\ last'.kind = "login_ok"
                     /\ \A r \in match : session'[last'.client] = r.id
                ELSE /\ last'.kind = "login_invalid"
                     /\ session' = session
      ]_vars

\* C5 witness: with two users registered, the first browser is bound to the
\* second user and the second browser, bound to the first user, has just
\* been refused with the first user's name and another PIN.
C5_Witness ==
    /\ Cardinality(registered) = 2
    /\ session["c1"] = 2 /\ session["c2"] = 1
    /\ last.client = "c2" /\ last.kind = "login_invalid"
    /\ \E r \in registered :
          r.id = 1 /\ r.username = last.form[1] /\ r.pin # last.form[2]

\* The outcomes of register that are a validation error.
ValidationKinds == {"register_missing", "register_bad_pin"}

\* A string of exactly four decimal digits.
IsFourDecimalDigits(s) ==
    Len(s) = 4 /\ \A i \in 1..Len(s) : s[i] \in DecimalChars

\* C6: register creates a user only when the username and the PIN are
\* non-empty after trimming, the PIN is exactly four decimal digits and no
\* user has the username; in every other case it fails with a validation or
\* a duplicate-user error and leaves the user table unchanged; no two users
\* share a username, and a registration of a taken username fails as a
\* duplicate, also when two registrations interleave.
C6_RegisterContract ==
    [][LET c == last'.client
           username == Strip(last'.form[1])
           pin == Strip(last'.form[2])
       IN
        /\ Serves("register", "idle") =>
              IF username = << >> \/ pin = << >> \/ ~IsFourDecimalDigits(pin)
              THEN /\ last'.kind \in ValidationKinds
                   /\ req'[c].pc = "idle"
                   /\ users' = users
              ELSE IF UsersNamed(username) # {}
              THEN /\ last'.kind = "register_duplicate"
                   /\ req'[c].pc = "idle"
                   /\ users' = users
              ELSE req'[c].pc = "register_commit" /\ users' = users
        /\ Serves("register", "register_commit") =>
              IF UsersNamed(username) # {}
              THEN last'.kind = "register_duplicate" /\ users' = users
              ELSE /\ last'.kind = "register_created"
                   /\ \E row \in users' \ users :
                         /\ users' = users \cup {row}
                         /\ row.username = username
        /\ \A x, y \in users' : x.username = y.username => x = y
      ]_vars

(***************************************************************************)
(* Ownership (Spec)                                                        *)
(***************************************************************************)
\* C9: every event row has one owner, an existing user, which never
\* changes, and a listing under a session bound to a user holds, in events
\* and in urgent_events, only rows of that user.
C9_OwnedAndIsolated ==
    [][LET c == last'.client
           OwnRows(listing) ==
               \A i \in 1..Len(listing) :
                   /\ listing[i].user_id = session[c]
                   /\ \E e \in events : /\ e.id = listing[i].id
                                        /\ e.user_id = session[c]
       IN
        /\ \A e \in events' :
              /\ Cardinality({u \in users' : u.id = e.user_id}) = 1
              /\ \A x \in events' : x.id = e.id => x = e
              /\ \A x \in events : x.id = e.id => x.user_id = e.user_id
        /\ (Serves("index", "index_fetch") /\ last'.kind = "index") =>
              /\ session[c] # NoUser
              /\ OwnRows(last'.events)
              /\ OwnRows(last'.urgent_events)
      ]_vars

\* C9 witness: the second user's listing holds an urgent event while the
\* table also holds an event of the first user.
C9_Witness ==
    /\ session["c1"] = 2
    /\ last.kind = "index"
    /\ Len(last.urgent_events) > 0
    /\ \E e \in events : e.user_id = 1

(***************************************************************************)
(* SpecDates: the cleanup over the days.  One browser that the two users   *)
(* of the database share; midnight may pass at any point.                  *)
(***************************************************************************)
DT_0531 == DateStr("datetime", 2025, 5, 31)

\* The date fields submitted to add.
CleanupDates == {NoDate, D_0531, DT_0531, D_0601, D_0602}

\* The last day of the clock.
LastDay == FirstDay + 1

DatesInit ==
    /\ users = {UserRow(1, Ana, Pin1234, "s1"), UserRow(2, Bob, Pin5678, "s2")}
    /\ events = {}
    /\ nextUserId = 3
    /\ nextEventId = 1
    /\ dialect \in Dialects
    /\ session = [c \in {"c1"} |-> 1]
    /\ today = FirstDay
    /\ req = [c \in {"c1"} |-> Idle]
    /\ last = Redirect("none", "none", << >>, "none")
    /\ registered = {[username |-> Ana, pin |-> Pin1234, id |-> 1],
                     [username |-> Bob, pin |-> Pin5678, id |-> 2]}

DatesNext ==
    \/ Tick(LastDay)
    \/ \E c \in {"c1"} :
        \/ Login(c, Ana, Pin1234)
        \/ Login(c, Bob, Pin5678)
        \/ IndexStart(c)
        \/ IndexClean(c)
        \/ IndexFetch(c)
        \/ /\ nextEventId <= MaxDatedEvents
           /\ \E d \in CleanupDates :
                 AddEvent(c, "Doctor", d, NoTime, AbsentField)

SpecDates == DatesInit /\ [][DatesNext]_vars

\* The date strings that have no date: no field, the empty string, fields
\* out of range, a string that is no date at all.
UndatedStrs ==
    {NoDate, DateStr("empty", 0, 0, 0), DateStr("ymd", 2025, 13, 40),
     DateStr("ymd", 2025, 6, 31), DateStr("datetime", 2025, 2, 29),
     DateStr("junk", 0, 0, 0)}

\* The event's date field parses to a date strictly before the day.
DatedBefore(e, day) ==
    parse_iso_date(e.date) # None /\ parse_iso_date(e.date) < day

\* C2: the cleanup of a listing, run for the day it read, deletes exactly
\* the events, of whatever user, whose date parses to a date strictly
\* before that day: the events dated that day or later and the events with
\* no date or with a date that does not parse stay, and no event dated
\* before the day remains.  A cleanup that finds nothing to delete finds a
\* table without such an event and leaves it as it is.
C2_CleanupDeletesExactlyPast ==
    [][LET c == last'.client
           day == req'[c].today
       IN
        /\ Serves("index", "index_clean") =>
              /\ events' = {e \in events : ~DatedBefore(e, day)}
              /\ \A e \in events :
                    (e.date = NoDate \/ parse_iso_date(e.date) >= day)
                        => e \in events'
              /\ \A e \in events' : ~DatedBefore(e, day)
              /\ events' # events
        /\ (Serves("index", "idle") /\ req'[c].pc = "index_fetch") =>
              /\ events' = events
              /\ \A e \in events : ~DatedBefore(e, day)
        /\ \A s \in UndatedStrs, d \in {FirstDay, LastDay} :
              /\ parse_iso_date(s) = None
              /\ ~IsPast([date |-> s], d)
      ]_vars

\* C2 witness: a cleanup has just deleted rows, and kept an event dated its
\* day and an event without a date, of two users.
C2_Witness ==
    /\ last.op = "index" /\ req["c1"].pc = "index_fetch"
    /\ req["c1"].to_delete # {}
    /\ req["c1"].to_delete \cap EventIds = {}
    /\ \E e1, e2 \in events :
          /\ parse_iso_date(e1.date) = req["c1"].today
          /\ e2.date = NoDate
          /\ e1.user_id # e2.user_id

(***************************************************************************)
(* SpecAdd: the form of add.  One browser that the two users of the        *)
(* database share, from an empty event table.                              *)
(***************************************************************************)
D_0310 == DateStr("ymd", 2025, 3, 10)
DT_0310 == DateStr("datetime", 2025, 3, 10)
EmptyDate == DateStr("empty", 0, 0, 0)

\* The title, date and urgent fields submitted to add.
AddTitles == {AbsentField, "", "Doctor"}
AddDates ==
    {NoDate, EmptyDate, D_0310, DT_0310, DateStr("ymd", 2025, 13, 40),
     DateStr("ymd", 2025, 6, 31), DateStr("junk", 0, 0, 0)}
AddFlags == {AbsentField, "on", "off"}

AddInit ==
    /\ users = {UserRow(1, Ana, Pin1234, "s1"), UserRow(2, Bob, Pin5678, "s2")}
    /\ events = {}
    /\ nextUserId = 3
    /\ nextEventId = 1
    /\ dialect = "rowid"
    /\ session = [c \in {"c1"} |-> NoUser]
    /\ today = FirstDay
    /\ req = [c \in {"c1"} |-> Idle]
    /\ last = Redirect("none", "none", << >>, "none")
    /\ registered = {[username |-> Ana, pin |-> Pin1234, id |-> 1],
                     [username |-> Bob, pin |-> Pin5678, id |-> 2]}

AddNext ==
    \E c \in {"c1"} :
        \/ Login(c, Ana, Pin1234)
        \/ Login(c, Bob, Pin5678)
        \/ Logout(c)
        \/ /\ nextEventId <= MaxAdded
           /\ \E t \in AddTitles, d \in AddDates, f \in AddFlags :
                 AddEvent(c, t, d, NoTime, f)

SpecAdd == AddInit /\ [][AddNext]_vars

\* The calendar date a date string denotes, as <<year, month, day>>, or
\* << >> when it denotes none.
Denoted(s) ==
    IF /\ s.layout \in {"ymd", "datetime"}
       /\ s.m \in 1..12
       /\ s.d >= 1
       /\ s.d <= (IF s.m = 2 THEN (IF IsLeap(s.y) THEN 29 ELSE 28)
                  ELSE IF s.m \in {4, 6, 9, 11} THEN 30 ELSE 31)
    THEN <<s.y, s.m, s.d>>
    ELSE << >>

\* The stored date text parses back to the calendar date <<year, month,
\* day>>: to the day that many days into that month of that year.
ParsesBackTo(s, ymd) ==
    /\ parse_iso_date(s) # None
    /\ parse_iso_date(s) - Ordinal(ymd[1], ymd[2], 1) = ymd[3] - 1

\* The date field counts as present: submitted with a value that is not the
\* empty string, or, when an empty value counts, submitted at all.
PresentDate(date_str, empty_counts) ==
    IF empty_counts THEN date_str.layout # "absent"
    ELSE date_str.layout \notin {"absent", "empty"}

\* The contract of add for a logged-in user, for either reading of
\* "date_str is present".
AddContract(empty_counts) ==
    (Serves("add", "idle") /\ login_required(last'.client)) =>
        LET c == last'.client
            title == last'.form[1]
            date_str == last'.form[2]
            flag == last'.form[4]
        IN  IF \/ title \in {AbsentField, ""}
               \/ /\ PresentDate(date_str, empty_counts)
                  /\ Denoted(date_str) = << >>
            THEN /\ last'.kind \in {"add_no_title", "add_bad_date"}
                 /\ events' = events
            ELSE /\ last'.kind = "add_ok"
                 /\ \E row \in events' \ events :
                       /\ events' = events \cup {row}
                       /\ row.id \notin EventIds
                       /\ row.user_id = session[c]
                       /\ flag = AbsentField => row.urgent = FALSE
                       /\ Denoted(date_str) # << >> =>
                             ParsesBackTo(row.date, Denoted(date_str))

\* C7 as stated: add fails and inserts nothing when the title is empty or
\* absent or when the date field is present and does not parse as an ISO
\* date; otherwise it inserts exactly one event, owned by the session user,
\* not urgent when the flag is absent, whose stored date text parses back to
\* the calendar date the submitted string denotes.
C7_AddContract == [][AddContract(TRUE)]_vars

\* C7 amended: the same, where the date field counts as present only when
\* it is submitted with a non-empty value; an empty date field is accepted
\* and the event is stored without a date.
C7_AddContractNonEmptyDate ==
    [][/\ AddContract(FALSE)
       /\ (/\ Serves("add", "idle")
           /\ last'.kind = "add_ok"
           /\ ~PresentDate(last'.form[2], FALSE)) =>
              \A row \in events' \ events : row.date = NoDate
      ]_vars

\* C7 witness: the second user has just added the event of a date-time
\* string with the urgent field absent.
C7_Witness ==
    /\ last.op = "add" /\ last.kind = "add_ok"
    /\ last.form[2] = DT_0310 /\ last.form[4] = AbsentField
    /\ session["c1"] = 2
    /\ \E e \in events : e.user_id = 2 /\ e.date = DT_0310 /\ ~e.urgent

(***************************************************************************)
(* SpecList: the listing of a table of events.  The table is any of the    *)
(* tables of at most MaxListed rows of the kinds below, left by earlier    *)
(* days; the first user's browser lists it.                                *)
(***************************************************************************)
\* An event row without a time, inserted as the id-th row.
EventRow(id, user_id, date, urgent) ==
    [id |-> id, user_id |-> user_id, title |-> "Doctor", date |-> date,
     time |-> NoTime, urgent |-> urgent, created_at |-> id]

\* The tables of n rows, keys 1..n, whose rows are <<user_id, date, urgent>>
\* of the kinds.
Tables(kinds, n) ==
    {{EventRow(i, f[i][1], f[i][2], f[i][3]) : i \in 1..n} :
        f \in [1..n -> kinds]}

ListKinds ==
    {<<1, D_0601, TRUE>>, <<1, D_0601, FALSE>>, <<1, D_0604, TRUE>>,
     <<1, D_0605, TRUE>>, <<1, NoDate, TRUE>>, <<1, D_0531, TRUE>>,
     <<2, D_0601, TRUE>>}

ListInit ==
    /\ users = {UserRow(1, Ana, Pin1234, "s1"), UserRow(2, Bob, Pin5678, "s2")}
    /\ \E n \in 0..MaxListed :
          /\ events \in Tables(ListKinds, n)
          /\ nextEventId = n + 1
    /\ nextUserId = 3
    /\ dialect = "rowid"
    /\ session = [c \in {"c1"} |-> 1]
    /\ today = FirstDay
    /\ req = [c \in {"c1"} |-> Idle]
    /\ last = Redirect("none", "none", << >>, "none")
    /\ registered = {[username |-> Ana, pin |-> Pin1234, id |-> 1],
                     [username |-> Bob, pin |-> Pin5678, id |-> 2]}

ListNext ==
    \E c \in {"c1"} :
        \/ IndexStart(c)
        \/ IndexClean(c)
        \/ IndexFetch(c)

SpecList == ListInit /\ [][ListNext]_vars

\* The view record is urgent, has a date, and is due in 0 to 3 days.
VeryNear(v, day) ==
    /\ v.urgent
    /\ parse_iso_date(v.date) # None
    /\ parse_iso_date(v.date) - day \in 0..3

\* The place of the event in the base ordering.
BasePlace(base, id) == CHOOSE i \in 1..Len(base) : base[i].id = id

\* C3: the events of a listing are the user's rows in the base ordering,
\* stably partitioned: is_very_near is set exactly on the urgent events
\* with a date 0 to 3 days ahead, every such event precedes every other
\* event, within either group the events are in their base order, and each
\* row of the base ordering is listed once.
C3_StablePartition ==
    [][(Serves("index", "index_fetch") /\ last'.kind = "index") =>
          LET c == last'.client
              base == FetchFor(session[c])
              out == last'.events
          IN  /\ Len(out) = Len(base)
              /\ \A k \in 1..Len(base) :
                    Cardinality({i \in 1..Len(out) :
                                    out[i].id = base[k].id}) = 1
              /\ \A i \in 1..Len(out) :
                    out[i].is_very_near = VeryNear(out[i], today)
              /\ \A i, j \in 1..Len(out) :
                    (i < j /\ VeryNear(out[j], today))
                        => VeryNear(out[i], today)
              /\ \A i, j \in 1..Len(out) :
                    (i < j /\ VeryNear(out[i], today) = VeryNear(out[j], today))
                        => BasePlace(base, out[i].id)
                               < BasePlace(base, out[j].id)
      ]_vars

\* C3 witness: a listing of two very near events and two others in which a
\* very near event precedes an event of an earlier date.
C3_Witness ==
    /\ last.kind = "index"
    /\ Len(last.events) = 4
    /\ last.events[1].is_very_near /\ last.events[2].is_very_near
    /\ ~last.events[3].is_very_near /\ ~last.events[4].is_very_near
    /\ last.events[2].date = D_0604
    /\ last.events[4].date = D_0601

(***************************************************************************)
(* SpecUrgent: the urgent events of a listing, over the tables of at most  *)
(* MaxUrgentListed rows of the kinds below.                                *)
(***************************************************************************)
UrgentKinds ==
    {<<1, NoDate, FALSE>>, <<1, D_0604, TRUE>>, <<1, D_0605, TRUE>>,
     <<1, D_0531, TRUE>>}

UrgentInit ==
    /\ users = {UserRow(1, Ana, Pin1234, "s1"), UserRow(2, Bob, Pin5678, "s2")}
    /\ \E n \in 0..MaxUrgentListed :
          /\ events \in Tables(UrgentKinds, n)
          /\ nextEventId = n + 1
    /\ nextUserId = 3
    /\ dialect = "rowid"
    /\ session = [c \in {"c1"} |-> 1]
    /\ today = FirstDay
    /\ req = [c \in {"c1"} |-> Idle]
    /\ last = Redirect("none", "none", << >>, "none")
    /\ registered = {[username |-> Ana, pin |-> Pin1234, id |-> 1],
                     [username |-> Bob, pin |-> Pin5678, id |-> 2]}

UrgentNext ==
    \E c \in {"c1"} :
        \/ IndexStart(c)
        \/ IndexClean(c)
        \/ IndexFetch(c)

SpecUrgent == UrgentInit /\ [][UrgentNext]_vars

\* The places of the urgent events of a list.
UrgentPlaces(list) == {i \in 1..Len(list) : list[i].urgent}

\* The place of the k-th urgent event of a list.
KthUrgent(list, k) ==
    CHOOSE i \in UrgentPlaces(list) :
        Cardinality({j \in UrgentPlaces(list) : j < i}) = k - 1

\* C4: the urgent_events of a listing are the first five urgent events of
\* its events, or all of them when there are fewer, in the order of the
\* events: at most five, none that is not urgent, the k-th of them the k-th
\* urgent event of the events.
C4_FirstFiveUrgent ==
    [][(Serves("index", "index_fetch") /\ last'.kind = "index") =>
          LET out == last'.events
              urg == last'.urgent_events
              n == Cardinality(UrgentPlaces(out))
          IN  /\ Len(urg) = (IF n < 5 THEN n ELSE 5)
              /\ Len(urg) <= 5
              /\ \A k \in 1..Len(urg) :
                    /\ urg[k].urgent
                    /\ urg[k] = out[KthUrgent(out, k)]
      ]_vars

\* C4 witness: a listing of six urgent events, the first very near, and of
\* an event that is not urgent in the second place, whose urgent_events
\* are five.
C4_Witness ==
    /\ last.kind = "index"
    /\ Cardinality(UrgentPlaces(last.events)) = 6
    /\ last.events[1].is_very_near
    /\ ~last.events[2].urgent
    /\ Len(last.urgent_events) = 5

====
